---- MODULE Spec2Model ----
(***************************************************************************)
(* Loan amortization service (src/main.py): the schedule and summary       *)
(* computations over Python's decimal.Decimal, and the HTTP handlers that  *)
(* call them on the loans of the store.                                    *)
(*                                                                         *)
(* A Decimal is modelled by value as sgn * c * 10^e, where the coefficient *)
(* c is a natural number held as a little-endian sequence of base-10000    *)
(* limbs (TLC integers are 32 bits wide, the coefficients are not).  Every *)
(* arithmetic operation rounds its exact result to the 28 significant      *)
(* digits of the default context, ROUND_HALF_EVEN, as the library does.    *)
(***************************************************************************)
EXTENDS Integers, Sequences, FiniteSets, TLC

\* LET with the value bound to a parameter: Body of v
Bind(v, Body(_)) == CHOOSE r \in {Body(w) : w \in {v}} : TRUE

\* ------------------------------------------------------------------------
\* Natural numbers of arbitrary size: the coefficient of a Decimal
\* ------------------------------------------------------------------------
Base == 10000
LimbDigits == 4

Prec == 28

Max(a, b) == IF a >= b THEN a ELSE b
Min(a, b) == IF a <= b THEN a ELSE b

Pow10(k) == <<1, 10, 100, 1000>>[k + 1]

\* the function f on 1..n as a sequence whose elements are computed once
Tuple(f) == f \o <<>>

\* the largest element of a non-empty set of integers
MaxOf(S) == CHOOSE m \in S : \A o \in S : o <= m

\* without the zero limbs at the top
NatTrim(a) ==
    LET nz == {i \in 1..Len(a) : a[i] /= 0}
    IN  IF nz = {} THEN <<>> ELSE SubSeq(a, 1, MaxOf(nz))

Limb(a, i) == IF i <= Len(a) THEN a[i] ELSE 0

NatOfInt(n) ==
    IF n = 0 THEN <<>>
    ELSE IF n < Base THEN <<n>>
    ELSE IF n < Base * Base THEN <<n % Base, n \div Base>>
    ELSE <<n % Base, (n \div Base) % Base, n \div (Base * Base)>>

NatToInt(a) ==
    Limb(a, 1) + Base * Limb(a, 2) + Base * Base * Limb(a, 3)

\* one pass of carries over raw limb values: each limb keeps its value below
\* Base and receives what the limb under it held above Base
NatPass(raw) ==
    Tuple([i \in 1..(Len(raw) + 1) |->
              (IF i <= Len(raw) THEN raw[i] % Base ELSE 0)
              + (IF i > 1 THEN raw[i - 1] \div Base ELSE 0)])

\* for limb values below 2 * Base - 1: the carry that enters position i, 1
\* when a limb under it overflows and every limb between is Base - 1
NatCarryIn(v, i) ==
    IF \E j \in 1..(i - 1) :
          v[j] >= Base /\ \A k \in (j + 1)..(i - 1) : v[k] = Base - 1
    THEN 1 ELSE 0

\* the number whose limb values are raw (each below 2^31): two passes leave
\* values below 2 * Base - 1, whose carries are then 0 or 1
NatCarry(raw) ==
    Bind(NatPass(NatPass(raw)), LAMBDA v :
         NatTrim([i \in 1..(Len(v) + 1) |->
                     IF i <= Len(v) THEN (v[i] + NatCarryIn(v, i)) % Base
                     ELSE NatCarryIn(v, i)]))

NatAdd(a, b) ==
    NatCarry(Tuple([i \in 1..Max(Len(a), Len(b)) |-> Limb(a, i) + Limb(b, i)]))

\* the borrow that enters position i of a - b: 1 when a limb of a under it is
\* smaller than b's and the limbs between are equal
NatBorrowIn(a, b, i) ==
    IF \E j \in 1..(i - 1) :
          a[j] < Limb(b, j) /\ \A k \in (j + 1)..(i - 1) : a[k] = Limb(b, k)
    THEN 1 ELSE 0

\* a - b for a >= b
NatSub(a, b) ==
    NatTrim([i \in 1..Len(a) |->
                (a[i] - Limb(b, i) - NatBorrowIn(a, b, i) + Base) % Base])

\* -1, 0, 1 as a < b, a = b, a > b (both trimmed)
NatCmp(a, b) ==
    IF Len(a) < Len(b) THEN -1
    ELSE IF Len(a) > Len(b) THEN 1
    ELSE LET diff == {i \in 1..Len(a) : a[i] /= b[i]}
         IN  IF diff = {} THEN 0
             ELSE IF a[MaxOf(diff)] < b[MaxOf(diff)] THEN -1 ELSE 1

NatMulSmall(a, k) ==
    IF k = 0 THEN <<>> ELSE NatCarry(Tuple([i \in 1..Len(a) |-> a[i] * k]))

\* the sum of a[i] * b[k + 1 - i] for i in lo..hi
RECURSIVE NatConv(_, _, _, _, _)
NatConv(a, b, k, lo, hi) ==
    IF lo > hi THEN 0
    ELSE IF lo = hi THEN a[lo] * b[k + 1 - lo]
    ELSE NatConv(a, b, k, lo, (lo + hi) \div 2)
         + NatConv(a, b, k, (lo + hi) \div 2 + 1, hi)

NatMul(a, b) ==
    IF a = <<>> \/ b = <<>> THEN <<>>
    ELSE NatCarry(Tuple([k \in 1..(Len(a) + Len(b) - 1) |->
                      NatConv(a, b, k, Max(1, k + 1 - Len(b)), Min(Len(a), k))]))

\* number of decimal digits (0 for zero)
SmallDigits(n) ==
    IF n >= 1000 THEN 4 ELSE IF n >= 100 THEN 3 ELSE IF n >= 10 THEN 2
    ELSE IF n >= 1 THEN 1 ELSE 0

NatDigits(a) ==
    IF a = <<>> THEN 0 ELSE LimbDigits * (Len(a) - 1) + SmallDigits(a[Len(a)])

Zeros(k) == [i \in 1..k |-> 0]

NatMulPow10(a, d) ==
    IF a = <<>> THEN a
    ELSE Zeros(d \div LimbDigits) \o NatMulSmall(a, Pow10(d % LimbDigits))

Reverse(s) == [i \in 1..Len(s) |-> s[Len(s) + 1 - i]]

\* the limbs of a from position k + 1 up, and the k limbs below them
NatHigh(a, k) == IF k >= Len(a) THEN <<>> ELSE SubSeq(a, k + 1, Len(a))
NatLow(a, k) == IF k >= Len(a) THEN a ELSE SubSeq(a, 1, k)

\* a divided by k, one of 1, 10, 100, 1000: each limb gives its digits under
\* k to the limb below
NatDivSmall(a, k) ==
    [q |-> NatTrim([i \in 1..Len(a) |->
                       a[i] \div k + (Limb(a, i + 1) % k) * (Base \div k)]),
     r |-> Limb(a, 1) % k]

\* a divided by 10^d: the quotient, and how the remainder compares with
\* half a unit of the quotient (0 exact, 1 below half, 2 half, 3 above)
NatDivPow10(a, d) ==
    IF d = 0 THEN [q |-> a, cls |-> 0]
    ELSE Bind(NatDivSmall(NatHigh(a, d \div LimbDigits), Pow10(d % LimbDigits)),
              LAMBDA qr :
         Bind(NatTrim(NatLow(a, d \div LimbDigits) \o <<qr.r>>), LAMBDA rem :
              [q   |-> qr.q,
               cls |-> IF rem = <<>> THEN 0
                       ELSE NatCmp(rem, NatMulPow10(<<5>>, d - 1)) + 2]))

\* the largest t in 0..9 for which b * (acc + t * step) <= v
NatQuotStep(v, b, acc, step) ==
    MaxOf({t \in 0..9 : NatCmp(NatMulSmall(b, acc + t * step), v) <= 0})

\* the largest d in 0..Base-1 with b * d <= v, for b <= v < b * Base: one
\* decimal digit of d at a time, from the thousands (step 1000) down
RECURSIVE NatQuotDigit(_, _, _, _)
NatQuotDigit(v, b, acc, step) ==
    IF step = 0 THEN acc
    ELSE NatQuotDigit(v, b, acc + step * NatQuotStep(v, b, acc, step),
                      step \div 10)

\* long division of a by b /= 0 over the limbs hi down to lo of a, entered
\* with the running remainder r: the quotient limbs, highest first, and the
\* remainder left
RECURSIVE NatDivModRange(_, _, _, _, _)
NatDivModRange(a, b, lo, hi, r) ==
    IF lo = hi
    THEN Bind(NatTrim(<<a[lo]>> \o r), LAMBDA v :
         Bind(IF NatCmp(v, b) < 0 THEN 0 ELSE NatQuotDigit(v, b, 0, 1000),
              LAMBDA d : [q |-> <<d>>, r |-> NatSub(v, NatMulSmall(b, d))]))
    ELSE Bind(NatDivModRange(a, b, (lo + hi) \div 2 + 1, hi, r), LAMBDA upper :
         Bind(NatDivModRange(a, b, lo, (lo + hi) \div 2, upper.r),
              LAMBDA lower : [q |-> upper.q \o lower.q, r |-> lower.r]))

NatDivMod(a, b) ==
    IF a = <<>> THEN [q |-> <<>>, r |-> <<>>]
    ELSE Bind(NatDivModRange(a, b, 1, Len(a), <<>>), LAMBDA res :
              [q |-> NatTrim(Reverse(res.q)), r |-> res.r])

NatIsOdd(a) == a /= <<>> /\ a[1] % 2 = 1

\* ------------------------------------------------------------------------
\* decimal.Decimal by value: sgn * c * 10^e
\* ------------------------------------------------------------------------
Dec(sgn, c, e) == [sgn |-> IF c = <<>> THEN 1 ELSE sgn, c |-> c, e |-> e]

Abs(n) == IF n < 0 THEN -n ELSE n

\* Decimal(n) of a Python int
DecOfInt(n) == Dec(IF n < 0 THEN -1 ELSE 1, NatOfInt(Abs(n)), 0)

DecIsZero(x) == x.c = <<>>

DecNeg(x) == IF DecIsZero(x) THEN x ELSE [sgn |-> -x.sgn, c |-> x.c, e |-> x.e]

\* the context's rounding of an exact result to p significant digits,
\* ROUND_HALF_EVEN
DecRound(x, p) ==
    IF NatDigits(x.c) <= p THEN x
    ELSE Bind(NatDivPow10(x.c, NatDigits(x.c) - p), LAMBDA qr :
              Dec(x.sgn,
                  IF qr.cls = 3 \/ (qr.cls = 2 /\ NatIsOdd(qr.q))
                  THEN NatAdd(qr.q, <<1>>) ELSE qr.q,
                  x.e + NatDigits(x.c) - p))

\* the exact sum of sx * cx * 10^e and sy * cy * 10^e
DecAddAligned(sx, cx, sy, cy, e) ==
    IF sx = sy THEN Dec(sx, NatAdd(cx, cy), e)
    ELSE Bind(NatCmp(cx, cy), LAMBDA cmp :
              IF cmp = 0 THEN Dec(1, <<>>, e)
              ELSE Dec(IF cmp > 0 THEN sx ELSE sy,
                       NatSub(IF cmp > 0 THEN cx ELSE cy,
                              IF cmp > 0 THEN cy ELSE cx), e))

\* exact sum of two non-zero values, before rounding
DecAddExact(x, y) ==
    DecAddAligned(x.sgn, NatMulPow10(x.c, x.e - Min(x.e, y.e)),
                  y.sgn, NatMulPow10(y.c, y.e - Min(x.e, y.e)), Min(x.e, y.e))

DecAddP(x, y, p) ==
    DecRound(IF DecIsZero(y) THEN x
             ELSE IF DecIsZero(x) THEN y ELSE DecAddExact(x, y), p)

DecSubP(x, y, p) == DecAddP(x, DecNeg(y), p)

DecMulP(x, y, p) ==
    IF DecIsZero(x) \/ DecIsZero(y) THEN Dec(1, <<>>, 0)
    ELSE DecRound(Dec(x.sgn * y.sgn, NatMul(x.c, y.c), x.e + y.e), p)

\* the quotient of the coefficients scaled by 10^shift, its last digit made
\* sticky when the division is inexact
DecDivCoeff(cx, cy, shift) ==
    Bind(NatDivMod(NatMulPow10(cx, Max(shift, 0)),
                   NatMulPow10(cy, Max(-shift, 0))), LAMBDA qr :
         IF qr.r /= <<>> /\ Limb(qr.q, 1) % 5 = 0
         THEN NatAdd(qr.q, <<1>>) ELSE qr.q)

\* x / y for y /= 0 (the callers raise on a zero divisor): the quotient to
\* p + 1 digits with a sticky last digit, then rounded
DecDivP(x, y, p) ==
    IF DecIsZero(y) \/ DecIsZero(x) THEN Dec(1, <<>>, 0)
    ELSE Bind(NatDigits(y.c) - NatDigits(x.c) + p + 1, LAMBDA shift :
              DecRound(Dec(x.sgn * y.sgn, DecDivCoeff(x.c, y.c, shift),
                           x.e - y.e - shift), p))

DecAdd(x, y) == DecAddP(x, y, Prec)
DecSub(x, y) == DecSubP(x, y, Prec)
DecMul(x, y) == DecMulP(x, y, Prec)
DecDiv(x, y) == DecDivP(x, y, Prec)

\* -1, 0, 1 as x < y, x = y, x > y
DecCmp(x, y) ==
    IF DecIsZero(y) THEN (IF DecIsZero(x) THEN 0 ELSE x.sgn)
    ELSE IF DecIsZero(x) THEN -y.sgn
    ELSE Bind(DecAddExact(x, DecNeg(y)), LAMBDA d :
              IF DecIsZero(d) THEN 0 ELSE d.sgn)

DecEq(x, y) == DecCmp(x, y) = 0

\* the highest power of two that is at most n >= 1
HighBit(n) == CHOOSE h \in {1, 2, 4, 8, 16, 32, 64, 128, 256, 512} :
                  h <= n /\ n < 2 * h

\* square-and-multiply over the bits of k from bit down, at precision wprec
RECURSIVE DecPowBits(_, _, _, _, _)
DecPowBits(res, tbase, k, bit, wprec) ==
    IF bit = 0 THEN res
    ELSE Bind(DecMulP(res, res, wprec), LAMBDA sq :
              DecPowBits(IF (k \div bit) % 2 = 1
                         THEN DecMulP(sq, tbase, wprec) ELSE sq,
                         tbase, k, bit \div 2, wprec))

\* tbase ** m for m >= 1 at the working precision wprec, rounded at the end
DecPowAt(tbase, m, wprec) ==
    IF DecIsZero(tbase) THEN tbase
    ELSE DecRound(DecPowBits(tbase, tbase, m, HighBit(m) \div 2, wprec), Prec)

\* base ** n for a positive base and an integer n: the power of the base (of
\* its reciprocal for n < 0) at a working precision of Prec + digits(n) + 2
\* digits (one more for n < 0)
DecPow(base, n) ==
    IF n = 0 THEN DecOfInt(1)
    ELSE IF n > 0
    THEN DecPowAt(base, n, Prec + SmallDigits(n) + 2)
    ELSE DecPowAt(DecDivP(DecOfInt(1), base, Prec + SmallDigits(-n) + 3),
                  -n, Prec + SmallDigits(-n) + 3)

\* x.quantize(Decimal("0.01"), rounding=ROUND_HALF_DOWN) and its like: the
\* value at exponent -places, a tie going toward zero
Quantize(x, places) ==
    IF x.e >= -places
    THEN Dec(x.sgn, NatMulPow10(x.c, x.e + places), -places)
    ELSE Bind(NatDivPow10(x.c, (-places) - x.e), LAMBDA qr :
              Dec(x.sgn, IF qr.cls = 3 THEN NatAdd(qr.q, <<1>>) ELSE qr.q,
                  -places))

\* a quantized amount as a whole number of 10^-places units
Units(x) == x.sgn * NatToInt(x.c)

\* Decimal("d.dd") from cents, Decimal("d.dddd") from ten-thousandths
Money(cents) == Dec(IF cents < 0 THEN -1 ELSE 1, NatOfInt(Abs(cents)), -2)
Rate(tt) == Dec(IF tt < 0 THEN -1 ELSE 1, NatOfInt(Abs(tt)), -4)

\* ------------------------------------------------------------------------
\* The amortization functions of src/main.py
\* ------------------------------------------------------------------------
IsError(v) == "err" \in DOMAIN v

\* the level payment quantized to one place after the point, not to cents
calculate_monthly_payment_one_place(amount, interest_rate, loan_term) ==
    Bind(DecDiv(interest_rate, DecOfInt(12 * 100)),
         LAMBDA monthly_interest_rate :
    Bind(DecMul(amount, monthly_interest_rate), LAMBDA numerator :
    Bind(DecSub(DecOfInt(1),
                DecPow(DecAdd(DecOfInt(1), monthly_interest_rate), -loan_term)),
         LAMBDA denominator :
         IF DecIsZero(numerator) /\ DecIsZero(denominator)
         THEN [err |-> "InvalidOperation"]
         ELSE IF DecIsZero(denominator)
         THEN [err |-> "DivisionByZero"]
         ELSE Quantize(DecDiv(numerator, denominator), 1))))

\* the payment with the growth factor raised to loan_term, not to -loan_term
calculate_monthly_payment_growth(amount, interest_rate, loan_term) ==
    Bind(DecDiv(interest_rate, DecOfInt(12 * 100)),
         LAMBDA monthly_interest_rate :
    Bind(DecMul(amount, monthly_interest_rate), LAMBDA numerator :
    Bind(DecSub(DecOfInt(1),
                DecPow(DecAdd(DecOfInt(1), monthly_interest_rate), loan_term)),
         LAMBDA denominator :
         IF DecIsZero(numerator) /\ DecIsZero(denominator)
         THEN [err |-> "InvalidOperation"]
         ELSE IF DecIsZero(denominator)
         THEN [err |-> "DivisionByZero"]
         ELSE Quantize(DecDiv(numerator, denominator), 2))))

\* calculate_monthly_payment: the level payment, quantized to cents; the
\* division raises when the denominator is zero (rate 0 or term 0):
\* InvalidOperation for 0 / 0, DivisionByZero otherwise
calculate_monthly_payment(amount, interest_rate, loan_term) ==
    Bind(DecDiv(interest_rate, DecOfInt(12 * 100)),
         LAMBDA monthly_interest_rate :
    Bind(DecMul(amount, monthly_interest_rate), LAMBDA numerator :
    Bind(DecSub(DecOfInt(1),
                DecPow(DecAdd(DecOfInt(1), monthly_interest_rate), -loan_term)),
         LAMBDA denominator :
         IF DecIsZero(numerator) /\ DecIsZero(denominator)
         THEN [err |-> "InvalidOperation"]
         ELSE IF DecIsZero(denominator)
         THEN [err |-> "DivisionByZero"]
         ELSE Quantize(DecDiv(numerator, denominator), 2))))

\* an entry numbered from 0, as a loop over range(loan_term) would number it
LoanScheduleFromZero(month, remaining_balance, monthly_payment) ==
    [month             |-> month - 1,
     remaining_balance |-> Quantize(remaining_balance, 2),
     monthly_payment   |-> Quantize(monthly_payment, 2)]

\* one entry of the schedule, as the loop body builds it
LoanSchedule(month, remaining_balance, monthly_payment) ==
    [month             |-> month,
     remaining_balance |-> Quantize(remaining_balance, 2),
     monthly_payment   |-> Quantize(monthly_payment, 2)]

\* the balance after one month's payment, rounded to cents before it is
\* carried to the next month
NextBalanceRounded(remaining_balance, monthly_interest_rate, monthly_payment) ==
    Bind(DecMul(remaining_balance, monthly_interest_rate),
         LAMBDA interest_payment :
    Bind(DecSub(monthly_payment, interest_payment), LAMBDA principal_payment :
         Quantize(DecSub(remaining_balance, principal_payment), 2)))

\* the balance with the principal part added to it, not taken from it
NextBalanceAdded(remaining_balance, monthly_interest_rate, monthly_payment) ==
    Bind(DecMul(remaining_balance, monthly_interest_rate),
         LAMBDA interest_payment :
    Bind(DecSub(monthly_payment, interest_payment), LAMBDA principal_payment :
         DecAdd(remaining_balance, principal_payment)))

\* the balance after one month's payment
NextBalance(remaining_balance, monthly_interest_rate, monthly_payment) ==
    Bind(DecMul(remaining_balance, monthly_interest_rate),
         LAMBDA interest_payment :
    Bind(DecSub(monthly_payment, interest_payment), LAMBDA principal_payment :
         DecSub(remaining_balance, principal_payment)))

\* the iterations lo..hi of the loop of calculate_loan_schedule, entered with
\* remaining_balance: the entries they append, and the balance they leave.
\* (The range is split in halves only to keep the evaluation shallow; the
\* months run in order, each from the balance the one before left.)
RECURSIVE ScheduleLoop(_, _, _, _, _)
ScheduleLoop(lo, hi, remaining_balance, monthly_interest_rate, monthly_payment) ==
    IF lo > hi THEN [schedule |-> <<>>, remaining_balance |-> remaining_balance]
    ELSE IF lo = hi
    THEN Bind(NextBalance(remaining_balance, monthly_interest_rate,
                          monthly_payment), LAMBDA nb :
              [schedule |-> <<LoanSchedule(lo, nb, monthly_payment)>>,
               remaining_balance |-> nb])
    ELSE Bind(ScheduleLoop(lo, (lo + hi) \div 2, remaining_balance,
                           monthly_interest_rate, monthly_payment),
              LAMBDA first :
         Bind(ScheduleLoop((lo + hi) \div 2 + 1, hi, first.remaining_balance,
                           monthly_interest_rate, monthly_payment),
              LAMBDA rest :
              [schedule |-> first.schedule \o rest.schedule,
               remaining_balance |-> rest.remaining_balance]))

\* calculate_loan_schedule: the list it returns (raised = "None"), or the
\* exception that calculate_monthly_payment raised and no list
calculate_loan_schedule(amount, interest_rate, loan_term) ==
    Bind(DecDiv(DecDiv(interest_rate, DecOfInt(12)), DecOfInt(100)),
         LAMBDA monthly_interest_rate :
    Bind(calculate_monthly_payment(amount, interest_rate, loan_term),
         LAMBDA monthly_payment :
         IF IsError(monthly_payment)
         THEN [raised |-> monthly_payment.err, schedule |-> <<>>]
         ELSE [raised   |-> "None",
               schedule |-> ScheduleLoop(1, loan_term, amount,
                                         monthly_interest_rate,
                                         monthly_payment).schedule]))

\* ------------------------------------------------------------------------
\* The summary computation of get_loan_summary
\* ------------------------------------------------------------------------

\* accumulators that start from a balance of zero, not from the amount
SummaryStartFromZero(loan) ==
    [principal_paid    |-> DecOfInt(0),
     interest_paid     |-> DecOfInt(0),
     remaining_balance |-> DecOfInt(0)]

\* the accumulators before the loop of get_loan_summary
SummaryStart(loan) ==
    [principal_paid    |-> DecOfInt(0),
     interest_paid     |-> DecOfInt(0),
     remaining_balance |-> loan.amount]

\* one iteration of the loop of get_loan_summary, for the 1-based month, on
\* the accumulators acc
SummaryStep(acc, annual_interest_rate, entries, month) ==
    Bind(DecSub(entries[month].monthly_payment,
                DecDiv(DecDiv(DecMul(acc.remaining_balance,
                                     annual_interest_rate),
                              DecOfInt(12)), DecOfInt(100))),
         LAMBDA interest_payment :
    Bind(DecSub(entries[month].monthly_payment, interest_payment),
         LAMBDA principal_payment :
         [principal_paid    |-> DecAdd(acc.principal_paid, principal_payment),
          interest_paid     |-> DecAdd(acc.interest_paid, interest_payment),
          remaining_balance |-> DecSub(acc.remaining_balance,
                                       principal_payment)]))

\* the iterations lo..hi of that loop, entered with the accumulators acc:
\* the accumulators as each iteration leaves them, in order (the range split
\* in halves to keep the evaluation shallow)
RECURSIVE SummaryLoop(_, _, _, _, _)
SummaryLoop(lo, hi, acc, annual_interest_rate, entries) ==
    IF lo > hi THEN <<>>
    ELSE IF lo = hi THEN <<SummaryStep(acc, annual_interest_rate, entries, lo)>>
    ELSE Bind(SummaryLoop(lo, (lo + hi) \div 2, acc, annual_interest_rate,
                          entries), LAMBDA first :
              first \o SummaryLoop((lo + hi) \div 2 + 1, hi, first[Len(first)],
                                   annual_interest_rate, entries))

\* the LoanSummary built from the accumulators
LoanSummary(acc) ==
    [raised |-> "None",
     current_principal_balance |-> Quantize(acc.remaining_balance, 2),
     aggregate_principal_paid  |-> Quantize(acc.principal_paid, 2),
     aggregate_interest_paid   |-> Quantize(acc.interest_paid, 2)]

\* the body of get_loan_summary once the loan is found: the LoanSummary it
\* returns, or the IndexError of schedule[month - 1] past the end of the list
loan_summary(loan, month_number) ==
    Bind(calculate_loan_schedule(loan.amount, loan.annual_interest_rate,
                                 loan.loan_term), LAMBDA res :
         IF res.raised /= "None" THEN [raised |-> res.raised]
         ELSE IF month_number > Len(res.schedule)
         THEN [raised |-> "IndexError"]
         ELSE LoanSummary(
                 Bind(SummaryStart(loan), LAMBDA start :
                      IF month_number < 1 THEN start
                      ELSE SummaryLoop(1, month_number, start,
                                       loan.annual_interest_rate,
                                       res.schedule)[month_number])))

\* ------------------------------------------------------------------------
\* The service: the loan store and its handlers
\* ------------------------------------------------------------------------

\* the store never holds more than MaxLoans loans; months asked of the
\* summary run from -1 to MaxMonth
MaxLoans == 4
MaxMonth == 6

\* a row of the loan table, a LoanRecord of a request, the arguments of a call
Loan(amount, annual_interest_rate, loan_term) ==
    [amount               |-> amount,
     annual_interest_rate |-> annual_interest_rate,
     loan_term            |-> loan_term]

\* loans_data, as _create_loans stores it
loans_data ==
    <<Loan(Money(1000000), Rate(50000), 12), Loan(Money(2000000), Rate(60000), 24)>>

\* the number of digits after the point that pydantic counts
DecimalPlaces(x) == IF x.e >= 0 THEN 0 ELSE -x.e

\* LoanRecord: amount >= 1 with at most 2 places, rate > 0 with at most 4
\* places, term > 0
LoanRecord(loan_record) ==
    /\ DecCmp(loan_record.amount, DecOfInt(1)) >= 0
    /\ DecimalPlaces(loan_record.amount) <= 2
    /\ DecCmp(loan_record.annual_interest_rate, DecOfInt(0)) > 0
    /\ DecimalPlaces(loan_record.annual_interest_rate) <= 4
    /\ loan_record.loan_term > 0

\* request bodies that LoanRecord accepts
ValidRecords ==
    { Loan(Money(1000000), Rate(30000), 12),
      Loan(Money(100), Rate(60000), 1) }

\* request bodies that LoanRecord rejects: amount below 1, three places in the
\* amount, rate 0, five places in the rate, term 0, term below 0
InvalidRecords ==
    { Loan(Money(50), Rate(30000), 12),
      Loan(Dec(1, NatOfInt(10000005), -3), Rate(30000), 12),
      Loan(Money(1000000), Rate(0), 12),
      Loan(Money(1000000), Dec(1, NatOfInt(312345), -5), 12),
      Loan(Money(1000000), Rate(30000), 0),
      Loan(Money(1000000), Rate(30000), -2) }

\* further arguments of direct calls of the two functions: valid loans at the
\* edges of the rate range, and arguments no LoanRecord would carry
ValidCalls ==
    { Loan(Money(1000000), Rate(55000), 12),
      Loan(Money(250000), Rate(10000), 24),
      Loan(Money(10000), Rate(300000), 60),
      Loan(Money(1654), Rate(299900), 60),
      Loan(Money(100), Rate(300000), 100),
      Loan(Money(124), Rate(300000), 90),
      Loan(Money(100), Rate(12000000), 10) }

InvalidCalls ==
    { Loan(Money(0), Rate(30000), 12),
      Loan(Money(-10000), Rate(30000), 12),
      Loan(Money(1000000), Rate(0), 12),
      Loan(Money(1000000), Rate(-30000), 2),
      Loan(Money(1000000), Rate(30000), 0),
      Loan(Money(1000000), Rate(30000), -2) }

\* every loan a row of the table can hold, every argument list of a call
Storable == {loans_data[i] : i \in 1..Len(loans_data)} \cup ValidRecords
Calls    == Storable \cup ValidCalls \cup InvalidCalls

Months == (-1)..MaxMonth

\* The functions are pure: their results over the arguments of the model are
\* computed once.
ScheduleOf ==
    [c \in Calls |->
        calculate_loan_schedule(c.amount, c.annual_interest_rate, c.loan_term)]

PaymentOf ==
    [c \in Calls |->
        calculate_monthly_payment(c.amount, c.annual_interest_rate, c.loan_term)]

SummaryOf == [l \in Storable, m \in Months |-> loan_summary(l, m)]

VARIABLES loans, request, response

vars == <<loans, request, response>>

\* the store after the module is loaded: the rows of loans_data, ids 1 and 2
Init ==
    /\ loans = loans_data
    /\ request = [op |-> "none"]
    /\ response = [status |-> 0]

\* POST /loan: 422 from the validation of LoanRecord, else a new row with the
\* rate quantized to four places
create_loan(loan_record) ==
    /\ Len(loans) < MaxLoans
    /\ request' = [op |-> "create_loan", loan_record |-> loan_record]
    /\ IF ~LoanRecord(loan_record)
       THEN /\ response' = [status |-> 422]
            /\ UNCHANGED loans
       ELSE /\ loans' = Append(loans,
                   Loan(loan_record.amount,
                        Quantize(loan_record.annual_interest_rate, 4),
                        loan_record.loan_term))
            /\ response' = [status |-> 200, message |-> "created",
                            loan_id |-> Len(loans) + 1]

\* what a handler answers when the computation res ends: 500 for an
\* exception nothing catches, else 200 with the result
Answer(res) ==
    IF res.raised /= "None" THEN [status |-> 500, raised |-> res.raised]
    ELSE [status |-> 200, body |-> res]

\* GET /loan/{loan_id}/schedule
get_loan_schedule(loan_id) ==
    /\ request' = [op |-> "get_loan_schedule", loan_id |-> loan_id]
    /\ response' =
          IF loan_id \notin 1..Len(loans)
          THEN [status |-> 200, message |-> "Loan not found"]
          ELSE Answer(ScheduleOf[loans[loan_id]])
    /\ UNCHANGED loans

\* GET /loan/{loan_id}/summary?month_number=
get_loan_summary(loan_id, month_number) ==
    /\ request' = [op |-> "get_loan_summary", loan_id |-> loan_id,
                   month_number |-> month_number]
    /\ response' =
          IF loan_id \notin 1..Len(loans)
          THEN [status |-> 200, message |-> "Loan not found"]
          ELSE Answer(SummaryOf[loans[loan_id], month_number])
    /\ UNCHANGED loans

\* a direct call of calculate_loan_schedule, as the tests make it
call_calculate_loan_schedule(c) ==
    /\ request' = [op |-> "calculate_loan_schedule", args |-> c]
    /\ response' = ScheduleOf[c]
    /\ UNCHANGED loans

\* the outcome of a direct call of calculate_monthly_payment
PaymentResult(p) ==
    IF IsError(p) THEN [raised |-> p.err]
    ELSE [raised |-> "None", monthly_payment |-> p]

call_calculate_monthly_payment(c) ==
    /\ request' = [op |-> "calculate_monthly_payment", args |-> c]
    /\ response' = PaymentResult(PaymentOf[c])
    /\ UNCHANGED loans

Next ==
    \/ \E r \in ValidRecords \cup InvalidRecords : create_loan(r)
    \/ \E i \in 0..(MaxLoans + 1) : get_loan_schedule(i)
    \/ \E i \in 0..(MaxLoans + 1), m \in Months : get_loan_summary(i, m)
    \/ \E c \in Calls : call_calculate_loan_schedule(c)
    \/ \E c \in Calls : call_calculate_monthly_payment(c)

Spec == Init /\ [][Next]_vars

\* ------------------------------------------------------------------------
\* Properties
\* ------------------------------------------------------------------------

\* a valid loan: principal, annual rate and term all above zero
ValidLoan(c) ==
    /\ DecCmp(c.amount, DecOfInt(0)) > 0
    /\ DecCmp(c.annual_interest_rate, DecOfInt(0)) > 0
    /\ c.loan_term > 0

\* the last request was a direct call of calculate_loan_schedule
ScheduleCalled == request.op = "calculate_loan_schedule"

\* the last request asked the summary of a loan of the store
SummaryAsked ==
    /\ request.op = "get_loan_summary"
    /\ request.loan_id \in 1..Len(loans)

\* C1: for every valid loan calculate_loan_schedule returns exactly loan_term
\* entries, and the entry at 0-based position i has month i + 1; the same
\* holds of the list GET /loan/{id}/schedule answers for a stored loan.
C1_ScheduleMonths ==
    /\ (ScheduleCalled /\ ValidLoan(request.args)) =>
          /\ response.raised = "None"
          /\ Len(response.schedule) = request.args.loan_term
          /\ \A i \in 1..Len(response.schedule) :
                response.schedule[i].month = i
    /\ (request.op = "get_loan_schedule" /\ request.loan_id \in 1..Len(loans)) =>
          /\ response.status = 200
          /\ Len(response.body.schedule) = loans[request.loan_id].loan_term
          /\ \A i \in 1..Len(response.body.schedule) :
                response.body.schedule[i].month = i

\* C1 happens: the schedule of 1.00 at 30% over 100 months was returned, with
\* 100 entries the last of which is month 100
C1_Witness ==
    /\ ScheduleCalled
    /\ request.args = Loan(Money(100), Rate(300000), 100)
    /\ Len(response.schedule) = 100
    /\ response.schedule[100].month = 100

\* the loan and the month of the summary asked last
AskedLoan  == loans[request.loan_id]
AskedMonth == request.month_number

\* the summary of section 4.2 over the schedule entries of loan l at month m,
\* 1 <= m <= loan_term: the balance the schedule reports for month m, the
\* principal less that balance, and payment * m less the principal paid
ReferenceSummary(l, m) ==
    Bind(ScheduleOf[l].schedule, LAMBDA entries :
    Bind(Quantize(DecSub(l.amount, entries[m].remaining_balance), 2),
         LAMBDA paid :
         [current_principal_balance |-> entries[m].remaining_balance,
          aggregate_principal_paid  |-> paid,
          aggregate_interest_paid   |->
              Quantize(DecSub(DecMul(entries[1].monthly_payment, DecOfInt(m)),
                              paid), 2)]))

\* two summaries with the same three amounts
SameSummary(s, t) ==
    /\ DecEq(s.current_principal_balance, t.current_principal_balance)
    /\ DecEq(s.aggregate_principal_paid, t.aggregate_principal_paid)
    /\ DecEq(s.aggregate_interest_paid, t.aggregate_interest_paid)

\* C2 (as the specification states it): for every stored loan and every month
\* m with 1 <= m <= loan_term, GET /loan/{id}/summary answers the reference
\* summary: the balance the schedule reports for month m, the principal less
\* that balance, and monthly_payment * m less the principal paid.
C2_SummaryIsReference ==
    (SummaryAsked /\ AskedMonth \in 1..AskedLoan.loan_term) =>
        /\ response.status = 200
        /\ SameSummary(response.body, ReferenceSummary(AskedLoan, AskedMonth))

\* C3 (as the specification states it): for every stored loan and every
\* month_number in 0..loan_term the reported aggregate_principal_paid and
\* aggregate_interest_paid add up to monthly_payment * month_number, to the
\* cent.
C3_PaidAddsUp ==
    (SummaryAsked /\ AskedMonth \in 0..AskedLoan.loan_term) =>
        /\ response.status = 200
        /\ DecEq(DecAdd(response.body.aggregate_principal_paid,
                        response.body.aggregate_interest_paid),
                 DecMul(ScheduleOf[AskedLoan].schedule[1].monthly_payment,
                        DecOfInt(AskedMonth)))

\* C4: for every stored loan the summary at month_number 0 is a result, not
\* an error: the balance is the original principal, the principal paid is 0
\* and the interest paid is 0.
C4_MonthZero ==
    (SummaryAsked /\ AskedMonth = 0) =>
        /\ response.status = 200
        /\ DecEq(response.body.current_principal_balance, AskedLoan.amount)
        /\ DecIsZero(response.body.aggregate_principal_paid)
        /\ DecIsZero(response.body.aggregate_interest_paid)

\* C4 happens: the summary at month 0 of a loan created by POST /loan, of
\* 10000.00 at 3% over 12 months, was answered with a balance of 10000.00
C4_Witness ==
    /\ SummaryAsked
    /\ AskedMonth = 0
    /\ request.loan_id = 3
    /\ AskedLoan = Loan(Money(1000000), Rate(30000), 12)
    /\ response.status = 200
    /\ response.body.current_principal_balance = Money(1000000)

\* C5 (as the specification states it): calculate_loan_schedule fails with
\* InvalidInput, and returns no schedule, whenever the principal, the annual
\* rate or the term is zero or below.
C5_InvalidInputRaised ==
    (ScheduleCalled /\ ~ValidLoan(request.args)) =>
        /\ response.raised = "InvalidInput"
        /\ response.schedule = <<>>

\* C6 (as the specification states it): the summary of a stored loan is
\* refused as an invalid input (a 4xx answer, never a summary and never a
\* server error) whenever month_number < 0 or month_number > loan_term.
C6_MonthOutOfRangeRefused ==
    (SummaryAsked /\ AskedMonth \notin 0..AskedLoan.loan_term) =>
        response.status \in 400..499

\* C9 (as the specification states it): asking the schedule or the summary
\* of a loan id that is not in the store is answered with HTTP 404, never
\* with a successful response.
C9_UnknownLoanNotFound ==
    (/\ request.op \in {"get_loan_schedule", "get_loan_summary"}
     /\ request.loan_id \notin 1..Len(loans)) =>
        response.status = 404

\* the absolute value of a decimal
DecAbs(x) == Dec(1, x.c, x.e)

\* the balance of the last entry of the schedule returned last
LastBalance == response.schedule[Len(response.schedule)].remaining_balance

\* a valid loan with an annual rate between 1% and 30% and a term of at most
\* longest months
InRange(c, longest) ==
    /\ ValidLoan(c)
    /\ c.loan_term \in 1..longest
    /\ DecCmp(c.annual_interest_rate, DecOfInt(1)) >= 0
    /\ DecCmp(c.annual_interest_rate, DecOfInt(30)) <= 0

\* C7 (as the specification states it): for every valid loan with a term of
\* 1 to 360 months and an annual rate of 1% to 30%, the remaining_balance of
\* the last schedule entry is below 1 currency unit in absolute value.
C7_TerminalBalance360 ==
    (ScheduleCalled /\ InRange(request.args, 360)) =>
        DecCmp(DecAbs(LastBalance), DecOfInt(1)) < 0

\* C7 (amended): for every valid loan with a term of 1 to 60 months and an
\* annual rate of 1% to 30%, the remaining_balance of the last schedule entry
\* is below 1 currency unit in absolute value.
C7_TerminalBalance60 ==
    (ScheduleCalled /\ InRange(request.args, 60)) =>
        /\ response.raised = "None"
        /\ DecCmp(DecAbs(LastBalance), DecOfInt(1)) < 0

\* C7 happens: the schedule of 16.54 at 29.99% over 60 months was returned,
\* and its last balance is -0.68
C7_Witness ==
    /\ ScheduleCalled
    /\ request.args = Loan(Money(1654), Rate(299900), 60)
    /\ Len(response.schedule) = 60
    /\ LastBalance = Money(-68)

\* the arguments of the model that are valid loans
ValidLoans == {c \in Calls : ValidLoan(c)}

\* monthly_rate = annual_rate_percent / 12 / 100
MonthlyRate(c) ==
    DecDiv(DecDiv(c.annual_interest_rate, DecOfInt(12)), DecOfInt(100))

\* the level payment of loan c at monthly rate r:
\* principal * r / (1 - (1 + r) ** -term_months), rounded once to cents
LevelPaymentAt(c, r) ==
    Quantize(DecDiv(DecMul(c.amount, r),
                    DecSub(DecOfInt(1),
                           DecPow(DecAdd(DecOfInt(1), r), -c.loan_term))), 2)

LevelPaymentOf == [c \in ValidLoans |-> LevelPaymentAt(c, MonthlyRate(c))]

\* C8: every entry of the schedule of a valid loan carries the same
\* monthly_payment, the level payment principal * r / (1 - (1 + r) ** -term)
\* with r = annual rate / 12 / 100, rounded once to 2 digits (half down, the
\* mode of the code); calculate_monthly_payment returns that value, which is
\* 858.37 for 10000 at 5.5% over 12 months.
C8_LevelPayment ==
    /\ (ScheduleCalled /\ ValidLoan(request.args)) =>
          /\ response.raised = "None"
          /\ \A i \in 1..Len(response.schedule) :
                DecEq(response.schedule[i].monthly_payment,
                      LevelPaymentOf[request.args])
          /\ request.args = Loan(Money(1000000), Rate(55000), 12) =>
                \A i \in 1..12 :
                    response.schedule[i].monthly_payment = Money(85837)
    /\ (request.op = "calculate_monthly_payment" /\ ValidLoan(request.args)) =>
          /\ response.raised = "None"
          /\ DecEq(response.monthly_payment, LevelPaymentOf[request.args])

\* C8 happens: the schedule of 10000 at 5.5% over 12 months was returned, and
\* its last entry carries the payment 858.37
C8_Witness ==
    /\ ScheduleCalled
    /\ request.args = Loan(Money(1000000), Rate(55000), 12)
    /\ Len(response.schedule) = 12
    /\ response.schedule[12].monthly_payment = Money(85837)

\* the unrounded balances b_lo .. b_hi, from b (the balance before month lo):
\* b_k = b_(k-1) - (payment - b_(k-1) * r)
RECURSIVE UnroundedBalances(_, _, _, _, _)
UnroundedBalances(lo, hi, b, r, payment) ==
    IF lo > hi THEN <<>>
    ELSE IF lo = hi
    THEN <<DecSub(b, DecSub(payment, DecMul(b, r)))>>
    ELSE Bind(UnroundedBalances(lo, (lo + hi) \div 2, b, r, payment),
              LAMBDA first :
              first \o UnroundedBalances((lo + hi) \div 2 + 1, hi,
                                         first[Len(first)], r, payment))

\* b_1 .. b_term of each valid loan, from b_0 = principal, with the payment
\* its schedule carries
UnroundedBalancesOf ==
    [c \in ValidLoans |->
        UnroundedBalances(1, c.loan_term, c.amount, MonthlyRate(c),
                          ScheduleOf[c].schedule[1].monthly_payment)]

\* C10: the remaining_balance that the schedule of a valid loan reports for
\* month k is the unrounded b_k rounded to 2 digits, where b_0 is the
\* principal and b_k = b_(k-1) - (monthly_payment - b_(k-1) * monthly_rate):
\* no rounding of a reported balance is carried into a later month.
C10_UnroundedCarry ==
    (ScheduleCalled /\ ValidLoan(request.args)) =>
        /\ Len(response.schedule) = Len(UnroundedBalancesOf[request.args])
        /\ \A k \in 1..Len(response.schedule) :
              DecEq(response.schedule[k].remaining_balance,
                    Quantize(UnroundedBalancesOf[request.args][k], 2))

\* C10 happens: the schedule of 10000 at 3% over 12 months was returned; it
\* reports 9178.06 for month 1 and -0.04 for month 12
C10_Witness ==
    /\ ScheduleCalled
    /\ request.args = Loan(Money(1000000), Rate(30000), 12)
    /\ response.schedule[1].remaining_balance = Money(917806)
    /\ response.schedule[12].remaining_balance = Money(-4)

\* the reported balances of entries never exceed amount and never grow from
\* one month to the next
NeverGrows(amount, entries) ==
    /\ \A k \in 1..Len(entries) :
          DecCmp(entries[k].remaining_balance, amount) <= 0
    /\ \A k \in 1..(Len(entries) - 1) :
          DecCmp(entries[k + 1].remaining_balance,
                 entries[k].remaining_balance) <= 0

\* the rounded payment of the entries covers the first month's interest of
\* loan c, amount * monthly_rate
CoversFirstInterest(c, entries) ==
    DecCmp(entries[1].monthly_payment, DecMul(c.amount, MonthlyRate(c))) >= 0

\* C11 (as stated): for every loan that LoanRecord accepts, the reported
\* remaining_balance of the schedule never exceeds the principal and never
\* grows from one month to the next.
C11_BalanceNeverGrows ==
    (ScheduleCalled /\ LoanRecord(request.args)) =>
        /\ response.raised = "None"
        /\ NeverGrows(request.args.amount, response.schedule)

\* C11 (amended): for every loan that LoanRecord accepts and whose rounded
\* monthly payment is at least the first month's interest, the reported
\* remaining_balance of the schedule never exceeds the principal and never
\* grows from one month to the next; the same holds of the schedule that
\* GET /loan/{id}/schedule answers for such a stored loan.
C11_BalanceNeverGrowsWhenCovered ==
    /\ (/\ ScheduleCalled
        /\ LoanRecord(request.args)
        /\ CoversFirstInterest(request.args, response.schedule)) =>
          /\ response.raised = "None"
          /\ NeverGrows(request.args.amount, response.schedule)
    /\ (/\ request.op = "get_loan_schedule"
        /\ request.loan_id \in 1..Len(loans)
        /\ CoversFirstInterest(AskedLoan, response.body.schedule)) =>
          NeverGrows(AskedLoan.amount, response.body.schedule)

\* C11 happens at its edge: the schedule of 1.00 at 1200% over 10 months was
\* returned; its payment 1.00 is exactly the first month's interest, and the
\* balance stays at 1.00 to the last month
C11_Witness ==
    /\ ScheduleCalled
    /\ request.args = Loan(Money(100), Rate(12000000), 10)
    /\ response.schedule[1].monthly_payment = Money(100)
    /\ CoversFirstInterest(request.args, response.schedule)
    /\ response.schedule[10].remaining_balance = Money(100)

====
